---- MODULE Spec2Model ----
(***************************************************************************)
(* ego-tree: a Vec-backed mutable tree.  A Tree is an id drawn from the    *)
(* process-wide counter TREE_ID_SEQ and a Vec of Nodes that is only ever   *)
(* pushed to; a NodeId is (tree_id, index).  src/lib.rs holds Tree, Node,  *)
(* the id counter, orphan, get/get_mut and Clone/PartialEq; the NodeMut    *)
(* mutators and the iterators live in node_mut.rs / iter.rs and are        *)
(* modelled here from the design document (spec.md, sections 4.4, 4.5).    *)
(***************************************************************************)
EXTENDS Integers, Sequences, FiniteSets, TLC

\* ---------------------------------------------------------------- bounds
MaxNodes == 4        \* nodes per arena in the structure specification
MaxTrees == 2        \* arenas alive at once in the arena specification
MaxArenaNodes == 2   \* nodes per arena in the arena specification
IdBits == 2          \* modelled width w of usize: ids are 0 .. 2^w - 1

Values == {"a", "b"}
Slots == 1 .. MaxTrees
Threads == {"t1", "t2"}

VARIABLES
    TREE_ID_SEQ,  \* the static AtomicUsize
    trees,        \* slot -> Tree (id, vec); a slot with an empty vec holds no Tree
    held,         \* Option<[id: NodeId, from: slot]>: a NodeId kept by the client
    issued,       \* history: every value tree_id_seq_next has returned
    clone_of,     \* history: slot -> the slot its Tree was cloned from (0: none)
    pc,           \* thread -> its position inside a constructor
    local,        \* thread -> the constructor's locals
    last          \* the last public call and how it ended

vars == <<TREE_ID_SEQ, trees, held, issued, clone_of, pc, local, last>>

\* ------------------------------------------------------- Option<T>
None == {}
Some(x) == {x}
unwrap(o) == CHOOSE x \in o : TRUE

\* ------------------------------------------------------- Node, Tree
\* Node::new with a link that is not cleared (two variants)
Node_new_parent_set(value) ==
    [parent |-> Some(0), prev_sibling |-> None, next_sibling |-> None,
     children |-> None, value |-> value]
Node_new_next_set(value) ==
    [parent |-> None, prev_sibling |-> None, next_sibling |-> Some(0),
     children |-> None, value |-> value]

Node_new(value) ==
    [parent |-> None, prev_sibling |-> None, next_sibling |-> None,
     children |-> None, value |-> value]

Tree_make(id, vec) == [id |-> id, vec |-> vec]

\* Tree::new: Tree { id: tree_id_seq_next(), vec: vec![Node::new(root)] }
Tree_new(id, root) == Tree_make(id, <<Node_new(root)>>)

NoTree == Tree_make(0, <<>>)

Live(s) == trees[s].vec # <<>>

\* unsafe { self.vec.get_unchecked(index) }: defined only for index < len
get_node_unchecked(vec, index) == vec[index + 1]

\* a write that lands on a copy of the node and never reaches the Vec
get_node_unchecked_mut_on_copy(vec, index, node) == vec

\* a write through get_node_unchecked_mut(index)
get_node_unchecked_mut(vec, index, node) == [vec EXCEPT ![index + 1] = node]

\* orphan that inserts at the front of the Vec instead of pushing
orphan_insert_front(vec, value) == <<Node_new(value)>> \o vec

\* Tree::orphan on the Vec: push Node::new(value); the new node's index is the old len
orphan(vec, value) == Append(vec, Node_new(value))

first_child(n) == IF n.children = None THEN None ELSE Some(unwrap(n.children)[1])
last_child(n) == IF n.children = None THEN None ELSE Some(unwrap(n.children)[2])

\* ------------------------------------------------------- NodeMut mutators
\* One field of the node at `index`, written through get_node_unchecked_mut.
set_parent(vec, index, o) ==
    get_node_unchecked_mut(vec, index, [get_node_unchecked(vec, index) EXCEPT !.parent = o])
set_prev_sibling(vec, index, o) ==
    get_node_unchecked_mut(vec, index,
        [get_node_unchecked(vec, index) EXCEPT !.prev_sibling = o])
set_next_sibling(vec, index, o) ==
    get_node_unchecked_mut(vec, index,
        [get_node_unchecked(vec, index) EXCEPT !.next_sibling = o])
set_children(vec, index, o) ==
    get_node_unchecked_mut(vec, index, [get_node_unchecked(vec, index) EXCEPT !.children = o])

\* NodeMut::append: a new node in storage, its parent set to self; if self has
\* a last child the two are linked and children.last moves to the new node,
\* otherwise children = (new, new).
append(vec, index, value) ==
    LET new == Len(vec)
        v1 == set_parent(orphan(vec, value), new, Some(index))
        self == get_node_unchecked(v1, index)
    IN  IF self.children = None
        THEN set_children(v1, index, Some(<<new, new>>))
        ELSE LET f == unwrap(first_child(self))
                 q == unwrap(last_child(self))
                 v2 == set_next_sibling(v1, q, Some(new))
                 v3 == set_prev_sibling(v2, new, Some(q))
             IN  set_children(v3, index, Some(<<f, new>>))

\* NodeMut::prepend: the mirror image of append, on the first side.
prepend(vec, index, value) ==
    LET new == Len(vec)
        v1 == set_parent(orphan(vec, value), new, Some(index))
        self == get_node_unchecked(v1, index)
    IN  IF self.children = None
        THEN set_children(v1, index, Some(<<new, new>>))
        ELSE LET f == unwrap(first_child(self))
                 l == unwrap(last_child(self))
                 v2 == set_prev_sibling(v1, f, Some(new))
                 v3 == set_next_sibling(v2, new, Some(f))
             IN  set_children(v3, index, Some(<<new, l>>))

\* NodeMut::insert_before on a node that is not the root: a new node spliced
\* into the sibling chain just before self, under self's parent; the parent's
\* children pair follows when the new node becomes the first child.
insert_before(vec, index, value) ==
    LET new == Len(vec)
        self == get_node_unchecked(vec, index)
        v1 == set_parent(orphan(vec, value), new, self.parent)
        v2 == IF self.prev_sibling = None THEN v1
              ELSE LET q == unwrap(self.prev_sibling)
                   IN  set_prev_sibling(set_next_sibling(v1, q, Some(new)), new, Some(q))
        v3 == set_next_sibling(v2, new, Some(index))
        v4 == set_prev_sibling(v3, index, Some(new))
    IN  IF self.parent = None THEN v4
        ELSE LET p == unwrap(self.parent)
                 ch == unwrap(get_node_unchecked(v4, p).children)
             IN  IF ch[1] = index THEN set_children(v4, p, Some(<<new, ch[2]>>)) ELSE v4

\* NodeMut::insert_after: the mirror image of insert_before.
insert_after(vec, index, value) ==
    LET new == Len(vec)
        self == get_node_unchecked(vec, index)
        v1 == set_parent(orphan(vec, value), new, self.parent)
        v2 == IF self.next_sibling = None THEN v1
              ELSE LET q == unwrap(self.next_sibling)
                   IN  set_next_sibling(set_prev_sibling(v1, q, Some(new)), new, Some(q))
        v3 == set_prev_sibling(v2, new, Some(index))
        v4 == set_next_sibling(v3, index, Some(new))
    IN  IF self.parent = None THEN v4
        ELSE LET p == unwrap(self.parent)
                 ch == unwrap(get_node_unchecked(v4, p).children)
             IN  IF ch[2] = index THEN set_children(v4, p, Some(<<ch[1], new>>)) ELSE v4

\* NodeMut::detach on a node that is not the root: a no-op when the parent is
\* absent; otherwise the node leaves its parent's chain and loses its three
\* links, and the neighbours and the parent's children pair are repaired:
\* (a) only child, (b) first with a next sibling, (c) last with a previous
\* sibling, (d) interior.
detach(vec, index) ==
    LET self == get_node_unchecked(vec, index)
    IN  IF self.parent = None THEN vec
        ELSE
        LET p == unwrap(self.parent)
            v1 == set_next_sibling(set_prev_sibling(set_parent(vec, index, None),
                                                    index, None), index, None)
            v2 == IF self.prev_sibling = None THEN v1
                  ELSE set_next_sibling(v1, unwrap(self.prev_sibling), self.next_sibling)
            v3 == IF self.next_sibling = None THEN v2
                  ELSE set_prev_sibling(v2, unwrap(self.next_sibling), self.prev_sibling)
            ch == unwrap(get_node_unchecked(v3, p).children)
        IN  IF ch[1] = index /\ ch[2] = index THEN set_children(v3, p, None)
            ELSE IF ch[1] = index
                 THEN set_children(v3, p, Some(<<unwrap(self.next_sibling), ch[2]>>))
            ELSE IF ch[2] = index
                 THEN set_children(v3, p, Some(<<ch[1], unwrap(self.prev_sibling)>>))
            ELSE v3

\* ------------------------------------------------------- traversal producers
\* A walk that follows one link family.  `fuel` is the number of nodes it may
\* still yield: done = FALSE reports a walk that did not end within Len(vec)
\* nodes, that is, one that would not terminate.
RECURSIVE walk(_, _, _, _, _)
walk(vec, link, cur, out, fuel) ==
    IF cur = None THEN [out |-> out, done |-> TRUE]
    ELSE IF fuel = 0 THEN [out |-> out, done |-> FALSE]
    ELSE LET n == unwrap(cur)
             nx == IF link = "next" THEN get_node_unchecked(vec, n).next_sibling
                   ELSE IF link = "prev" THEN get_node_unchecked(vec, n).prev_sibling
                   ELSE get_node_unchecked(vec, n).parent
         IN  walk(vec, link, nx, Append(out, n), fuel - 1)

\* children(): first_child, then next_sibling until absent
children(vec, index) ==
    walk(vec, "next", first_child(get_node_unchecked(vec, index)), <<>>, Len(vec))

\* the same chain walked from last_child through prev_sibling
children_rev(vec, index) ==
    walk(vec, "prev", last_child(get_node_unchecked(vec, index)), <<>>, Len(vec))

\* ancestors(): parent, then its parent, until absent
ancestors(vec, index) ==
    walk(vec, "parent", get_node_unchecked(vec, index).parent, <<>>, Len(vec))

\* descendants(): pre-order with an explicit stack.  The top of the stack is
\* its head; a popped node is yielded and its children are pushed so that the
\* first child is popped next.
RECURSIVE descendants_loop(_, _, _, _)
descendants_loop(vec, stack, out, fuel) ==
    IF stack = <<>> THEN [out |-> out, done |-> TRUE]
    ELSE IF fuel = 0 THEN [out |-> out, done |-> FALSE]
    ELSE LET n == Head(stack)
         IN  descendants_loop(vec, children(vec, n).out \o Tail(stack),
                              Append(out, n), fuel - 1)

descendants(vec, index) == descendants_loop(vec, <<index>>, <<>>, Len(vec) + 1)

\* Tree::root: the cursor bound to index 0
root == 0

\* ------------------------------------------------------- calls on one arena
\* what the client saw of its last call; parent_before is the acted-on node's
\* parent link as the call found it
Call(op, s, index, err) ==
    [op |-> op, slot |-> s, index |-> index, err |-> err, parent_before |-> None]

CallOn(op, s, index, err) ==
    [Call(op, s, index, err) EXCEPT
        !.parent_before = get_node_unchecked(trees[s].vec, index).parent]

Frame == UNCHANGED <<TREE_ID_SEQ, held, issued, clone_of, pc, local>>

SetVec(s, vec) == trees' = [trees EXCEPT ![s].vec = vec]

Indices(s) == 0 .. Len(trees[s].vec) - 1

OrphanWithin(s, v, max) ==
    /\ Live(s) /\ Len(trees[s].vec) < max
    /\ SetVec(s, orphan(trees[s].vec, v))
    /\ last' = Call("orphan", s, Len(trees[s].vec), "ok")
    /\ UNCHANGED <<TREE_ID_SEQ, held, issued, clone_of, pc, local>>

CallOrphan(s, v) == OrphanWithin(s, v, MaxNodes)

CallAppend(s, i, v) ==
    /\ Live(s) /\ i \in Indices(s) /\ Len(trees[s].vec) < MaxNodes
    /\ SetVec(s, append(trees[s].vec, i, v))
    /\ last' = CallOn("append", s, i, "ok")
    /\ Frame

CallPrepend(s, i, v) ==
    /\ Live(s) /\ i \in Indices(s) /\ Len(trees[s].vec) < MaxNodes
    /\ SetVec(s, prepend(trees[s].vec, i, v))
    /\ last' = CallOn("prepend", s, i, "ok")
    /\ Frame

CallInsertBefore(s, i, v) ==
    /\ Live(s) /\ i \in Indices(s)
    /\ IF i = 0
       THEN /\ last' = CallOn("insert_before", s, i, "RootHasNoSiblings")
            /\ UNCHANGED trees
       ELSE /\ Len(trees[s].vec) < MaxNodes
            /\ SetVec(s, insert_before(trees[s].vec, i, v))
            /\ last' = CallOn("insert_before", s, i, "ok")
    /\ Frame

CallInsertAfter(s, i, v) ==
    /\ Live(s) /\ i \in Indices(s)
    /\ IF i = 0
       THEN /\ last' = CallOn("insert_after", s, i, "RootHasNoSiblings")
            /\ UNCHANGED trees
       ELSE /\ Len(trees[s].vec) < MaxNodes
            /\ SetVec(s, insert_after(trees[s].vec, i, v))
            /\ last' = CallOn("insert_after", s, i, "ok")
    /\ Frame

CallDetach(s, i) ==
    /\ Live(s) /\ i \in Indices(s)
    /\ IF i = 0
       THEN /\ last' = CallOn("detach", s, i, "CannotDetachRoot")
            /\ UNCHANGED trees
       ELSE /\ SetVec(s, detach(trees[s].vec, i))
            /\ last' = CallOn("detach", s, i, "ok")
    /\ Frame

\* ------------------------------------------------------- structure specification
\* The state after `let mut tree = Tree::new(v)` in a fresh process.
InitTree ==
    /\ TREE_ID_SEQ = 1
    /\ \E v \in Values :
         trees = [s \in Slots |-> IF s = 1 THEN Tree_new(0, v) ELSE NoTree]
    /\ held = None
    /\ issued = {0}
    /\ clone_of = [s \in Slots |-> 0]
    /\ pc = [t \in Threads |-> "idle"]
    /\ local = [t \in Threads |-> [id |-> 0, vec |-> <<>>, src |-> 0]]
    /\ last = Call("new", 1, 0, "ok")

NextTree ==
    \E s \in Slots, v \in Values :
        \/ CallOrphan(s, v)
        \/ \E i \in 0 .. MaxNodes - 1 :
            \/ CallAppend(s, i, v)
            \/ CallPrepend(s, i, v)
            \/ CallInsertBefore(s, i, v)
            \/ CallInsertAfter(s, i, v)
            \/ CallDetach(s, i)

Spec == InitTree /\ [][NextTree]_vars


\* ------------------------------------------------------- the id counter
IdSpace == 2 ^ IdBits

\* static TREE_ID_SEQ: AtomicUsize = ATOMIC_USIZE_INIT
ATOMIC_USIZE_INIT == 0

\* tree_id_seq_next: TREE_ID_SEQ.fetch_add(1, Relaxed), one atomic
\* read-modify-write that returns the old value and wraps on overflow
tree_id_seq_next(ret) ==
    /\ ret = TREE_ID_SEQ
    /\ TREE_ID_SEQ' = (TREE_ID_SEQ + 1) % IdSpace
    /\ issued' = issued \cup {ret}

\* ------------------------------------------------------- Tree: handles
NodeId(tree_id, index) == [tree_id |-> tree_id, index |-> index]

\* Tree::node_id
node_id(tree, index) == NodeId(tree.id, index)

\* Tree::validate_id: assert_eq!(self.id, id.tree_id); id.index
\* None stands for the panic of the failed assertion.
validate_id(tree, id) == IF tree.id = id.tree_id THEN Some(id.index) ELSE None

\* Tree::get / Tree::get_mut: validate_id, then get_unchecked(index), which
\* indexes the Vec unchecked.  An index at or beyond len is undefined
\* behaviour there: whatever the build then does is reported as
\* "IndexOutOfRange".
get(tree, id) ==
    IF validate_id(tree, id) = None THEN "InvalidHandle"
    ELSE IF unwrap(validate_id(tree, id)) >= Len(tree.vec) THEN "IndexOutOfRange"
    ELSE "ok"

\* impl PartialEq for Tree: self.vec == other.vec
eq(a, b) == a.vec = b.vec

\* ------------------------------------------------------- constructors, per thread
NoLocal == [id |-> 0, vec |-> <<>>, src |-> 0]

InFlight == {t \in Threads : pc[t] # "idle"}
LiveSlots == {s \in Slots : Live(s)}
Room == Cardinality(LiveSlots) + Cardinality(InFlight) < MaxTrees
FreeSlot == CHOOSE s \in Slots : ~Live(s) /\ \A r \in Slots : ~Live(r) => s <= r
Borrowed(s) == \E t \in Threads : pc[t] = "clone_vec" /\ local[t].src = s

\* the constructed Tree is moved to its owner
Return(t, op, tree, src) ==
    /\ trees' = [trees EXCEPT ![FreeSlot] = tree]
    /\ clone_of' = [clone_of EXCEPT ![FreeSlot] = src]
    /\ last' = Call(op, FreeSlot, 0, "ok")
    /\ pc' = [pc EXCEPT ![t] = "idle"]
    /\ local' = [local EXCEPT ![t] = NoLocal]

\* Tree::new: the id field is evaluated first ...
TreeNew_id(t, v) ==
    /\ pc[t] = "idle" /\ Room
    /\ \E ret \in 0 .. IdSpace - 1 :
         /\ tree_id_seq_next(ret)
         /\ local' = [local EXCEPT ![t] = [id |-> ret, vec |-> Tree_new(ret, v).vec, src |-> 0]]
    /\ pc' = [pc EXCEPT ![t] = "new_ret"]
    /\ last' = Call("tree_id_seq_next", 0, 0, "ok")
    /\ UNCHANGED <<trees, held, clone_of>>

\* ... then vec![Node::new(root)], and the Tree is returned
TreeNew_ret(t) ==
    /\ pc[t] = "new_ret"
    /\ Return(t, "new", Tree_make(local[t].id, local[t].vec), 0)
    /\ UNCHANGED <<TREE_ID_SEQ, issued, held>>

\* Tree::with_capacity: the Vec is built and the root pushed first ...
WithCapacity_vec(t, v) ==
    /\ pc[t] = "idle" /\ Room
    /\ local' = [local EXCEPT ![t] = [id |-> 0, vec |-> <<Node_new(v)>>, src |-> 0]]
    /\ pc' = [pc EXCEPT ![t] = "wc_id"]
    /\ last' = Call("with_capacity", 0, 0, "ok")
    /\ UNCHANGED <<TREE_ID_SEQ, issued, trees, held, clone_of>>

\* ... then the id is drawn and the Tree is returned
WithCapacity_ret(t) ==
    /\ pc[t] = "wc_id"
    /\ \E ret \in 0 .. IdSpace - 1 :
         /\ tree_id_seq_next(ret)
         /\ Return(t, "with_capacity", Tree_make(ret, local[t].vec), 0)
    /\ UNCHANGED held

\* Default::default: Tree::new(T::default())
DefaultValue == "a"
TreeDefault(t) == TreeNew_id(t, DefaultValue)

\* Clone::clone: the id field is evaluated first ...
Clone_id(t, src) ==
    /\ pc[t] = "idle" /\ Room /\ Live(src)
    /\ \E ret \in 0 .. IdSpace - 1 :
         /\ tree_id_seq_next(ret)
         /\ local' = [local EXCEPT ![t] = [id |-> ret, vec |-> <<>>, src |-> src]]
    /\ pc' = [pc EXCEPT ![t] = "clone_vec"]
    /\ last' = Call("tree_id_seq_next", 0, 0, "ok")
    /\ UNCHANGED <<trees, held, clone_of>>

\* ... then self.vec.clone(); self stays borrowed until the clone is returned
Clone_ret(t) ==
    /\ pc[t] = "clone_vec"
    /\ Return(t, "clone", Tree_make(local[t].id, trees[local[t].src].vec), local[t].src)
    /\ UNCHANGED <<TREE_ID_SEQ, issued, held>>

\* the owner drops a Tree; NodeIds taken from it live on
Drop(s) ==
    /\ Live(s) /\ ~Borrowed(s)
    /\ trees' = [trees EXCEPT ![s] = NoTree]
    /\ clone_of' = [r \in Slots |-> IF r = s \/ clone_of[r] = s THEN 0 ELSE clone_of[r]]
    /\ held' = IF held # None /\ unwrap(held).from = s
               THEN Some([unwrap(held) EXCEPT !.from = 0]) ELSE held
    /\ last' = Call("drop", s, 0, "ok")
    /\ UNCHANGED <<TREE_ID_SEQ, issued, pc, local>>

ArenaOrphan(s, v) == ~Borrowed(s) /\ OrphanWithin(s, v, MaxArenaNodes)

\* NodeRef::id / NodeMut::id: the client keeps tree.node_id(index)
TakeId(s, i) ==
    /\ Live(s) /\ i \in Indices(s)
    /\ held' = Some([id |-> node_id(trees[s], i), from |-> s])
    /\ last' = Call("id", s, i, "ok")
    /\ UNCHANGED <<TREE_ID_SEQ, issued, trees, clone_of, pc, local>>

CallGet(s) ==
    /\ Live(s) /\ held # None
    /\ last' = Call("get", s, unwrap(held).id.index, get(trees[s], unwrap(held).id))
    /\ UNCHANGED <<TREE_ID_SEQ, issued, trees, held, clone_of, pc, local>>

CallGetMut(s) ==
    /\ Live(s) /\ held # None /\ ~Borrowed(s)
    /\ last' = Call("get_mut", s, unwrap(held).id.index, get(trees[s], unwrap(held).id))
    /\ UNCHANGED <<TREE_ID_SEQ, issued, trees, held, clone_of, pc, local>>

\* ------------------------------------------------------- arena specification
\* A fresh process: the counter at its initial value, no Tree yet.
InitArena ==
    /\ TREE_ID_SEQ = ATOMIC_USIZE_INIT
    /\ trees = [s \in Slots |-> NoTree]
    /\ held = None
    /\ issued = {}
    /\ clone_of = [s \in Slots |-> 0]
    /\ pc = [t \in Threads |-> "idle"]
    /\ local = [t \in Threads |-> NoLocal]
    /\ last = Call("start", 0, 0, "ok")

NextArena ==
    \/ \E t \in Threads :
        \/ \E v \in Values : TreeNew_id(t, v)
        \/ TreeNew_ret(t)
        \/ \E v \in Values : WithCapacity_vec(t, v)
        \/ WithCapacity_ret(t)
        \/ TreeDefault(t)
        \/ \E src \in Slots : Clone_id(t, src)
        \/ Clone_ret(t)
    \/ \E s \in Slots :
        \/ Drop(s)
        \/ \E v \in Values : ArenaOrphan(s, v)
        \/ \E i \in 0 .. MaxArenaNodes - 1 : TakeId(s, i)
        \/ CallGet(s)
        \/ CallGetMut(s)

SpecArena == InitArena /\ [][NextArena]_vars

\* ======================================================= properties
node(vec, i) == get_node_unchecked(vec, i)
Idx(vec) == 0 .. Len(vec) - 1
Range(seq) == {seq[k] : k \in 1 .. Len(seq)}
Reverse(seq) == [k \in 1 .. Len(seq) |-> seq[Len(seq) + 1 - k]]
OptSet(o) == o    \* the nodes an Option<usize> names: none or one

\* the node a parent walk from i ends at, and whether the walk ends at all
top(vec, i) ==
    LET a == ancestors(vec, i)
    IN  IF a.out = <<>> THEN i ELSE a.out[Len(a.out)]
attached(vec, i) == ancestors(vec, i).done /\ top(vec, i) = root
is_orphan(vec, i) == node(vec, i).parent = None

\* the step just taken was a call of `op` that returned normally
Did(op) == last'.op = op /\ last'.err = "ok"
OtherTreesSame ==
    /\ \A s \in Slots : s # last'.slot => trees'[s] = trees[s]
    /\ trees'[last'.slot].id = trees[last'.slot].id

\* ------------------------------------------------------- C3
AppendPost(old, new, p) ==
    LET c == Len(old)
        had == node(old, p).children # None
        q == last_child(node(old, p))
    IN  /\ Len(new) = Len(old) + 1
        /\ node(new, c).parent = Some(p)
        /\ node(new, c).next_sibling = None
        /\ last_child(node(new, p)) = Some(c)
        /\ IF had
           THEN /\ node(new, unwrap(q)).next_sibling = Some(c)
                /\ node(new, c).prev_sibling = q
                /\ first_child(node(new, p)) = first_child(node(old, p))
                /\ node(new, unwrap(q)) = [node(old, unwrap(q)) EXCEPT !.next_sibling = Some(c)]
           ELSE /\ first_child(node(new, p)) = Some(c)
                /\ node(new, c).prev_sibling = None
        /\ node(new, p) = [node(old, p) EXCEPT !.children = node(new, p).children]
        /\ \A i \in Idx(old) : i \notin {p} \cup OptSet(q) => node(new, i) = node(old, i)

\* C3: p.append(v) pushes exactly one node c with c.parent = p, no next sibling
\* and p.last_child = c; a former last child q is linked to c both ways and
\* p.first_child stays, otherwise c is also the first child and has no previous
\* sibling; no other value or link of any node changes.
C3_AppendLinksNewLastChild ==
    [][Did("append") =>
         /\ AppendPost(trees[last'.slot].vec, trees'[last'.slot].vec, last'.index)
         /\ OtherTreesSame]_vars

C3_Witness ==
    /\ last.op = "append" /\ last.err = "ok"
    /\ Len(children(trees[last.slot].vec, last.index).out) >= 2
    /\ last.index # root

\* ------------------------------------------------------- C4
DetachPost(old, new, n) ==
    LET on == node(old, n)
    IN  IF on.parent = None THEN new = old
        ELSE
        LET p == unwrap(on.parent)
            f == unwrap(first_child(node(old, p)))
            l == unwrap(last_child(node(old, p)))
            q == on.prev_sibling
            s == on.next_sibling
        IN  /\ Len(new) = Len(old)
            /\ node(new, n) = [on EXCEPT !.parent = None, !.prev_sibling = None,
                                         !.next_sibling = None]
            /\ IF f = n /\ l = n THEN node(new, p).children = None
               ELSE IF f = n
                    THEN /\ s # None
                         /\ node(new, p).children = Some(<<unwrap(s), l>>)
                         /\ node(new, unwrap(s)).prev_sibling = None
               ELSE IF l = n
                    THEN /\ q # None
                         /\ node(new, p).children = Some(<<f, unwrap(q)>>)
                         /\ node(new, unwrap(q)).next_sibling = None
               ELSE /\ q # None /\ s # None
                    /\ node(new, unwrap(q)).next_sibling = s
                    /\ node(new, unwrap(s)).prev_sibling = q
                    /\ node(new, p).children = node(old, p).children
            /\ node(new, p) = [node(old, p) EXCEPT !.children = node(new, p).children]
            /\ \A i \in OptSet(q) : node(new, i) = [node(old, i) EXCEPT !.next_sibling = s]
            /\ \A i \in OptSet(s) : node(new, i) = [node(old, i) EXCEPT !.prev_sibling = q]
            /\ \A i \in Idx(old) :
                 i \notin {n, p} \cup OptSet(q) \cup OptSet(s) => node(new, i) = node(old, i)
            /\ descendants(new, n).done
            /\ descendants(new, n) = descendants(old, n)

\* C4: n.detach() on a non-root node with parent p clears n's parent and sibling
\* links and repairs the chain (only child: p.children absent; first: p.first is
\* the next sibling, which loses its previous link; last: symmetric; interior:
\* the neighbours point at each other); n's children pair and the subtree under
\* n keep their links and values and are still reached from n; with the parent
\* already absent nothing changes.
C4_DetachRepairsChainKeepsSubtree ==
    [][Did("detach") =>
         /\ DetachPost(trees[last'.slot].vec, trees'[last'.slot].vec, last'.index)
         /\ OtherTreesSame]_vars

C4_Witness ==
    /\ last.op = "detach" /\ last.err = "ok" /\ last.parent_before # None
    /\ LET vec == trees[last.slot].vec
       IN  /\ node(vec, last.index).children # None
           /\ node(vec, unwrap(last.parent_before)).children # None

\* ------------------------------------------------------- C5
\* pre-order by structural recursion: a node, then the pre-order of each child
\* in first-to-last sibling order (depth is cut at `fuel` levels)
RECURSIVE pre_order(_, _, _)
RECURSIVE concat_pre_order(_, _, _)
pre_order(vec, n, fuel) ==
    IF fuel = 0 THEN <<n>>
    ELSE <<n>> \o concat_pre_order(vec, children(vec, n).out, fuel - 1)
concat_pre_order(vec, kids, fuel) ==
    IF kids = <<>> THEN <<>>
    ELSE pre_order(vec, Head(kids), fuel) \o concat_pre_order(vec, Tail(kids), fuel)

DescendantsOK(vec) ==
    LET d == descendants(vec, root)
        att == {i \in Idx(vec) : attached(vec, i)}
    IN  /\ d.done
        /\ Range(d.out) = att
        /\ Len(d.out) = Cardinality(att)
        /\ d.out = pre_order(vec, root, Len(vec))
        /\ \A i \in Idx(vec) : i # root /\ ~attached(vec, i) => i \notin Range(d.out)

\* C5: root().descendants() terminates and yields every attached node exactly
\* once, in depth-first pre-order with children first to last, and no orphan
\* and no node under a detached subtree.
C5_DescendantsPreOrderOfAttached ==
    \A s \in Slots : Live(s) => DescendantsOK(trees[s].vec)

C5_Witness ==
    \E s \in Slots :
        /\ Live(s)
        /\ LET vec == trees[s].vec
           IN  /\ Len(descendants(vec, root).out) = 2
               /\ \E i \in Idx(vec) : ~is_orphan(vec, i) /\ ~attached(vec, i)

\* ------------------------------------------------------- C6
RootLinksAbsent(vec) ==
    /\ node(vec, root).parent = None
    /\ node(vec, root).prev_sibling = None
    /\ node(vec, root).next_sibling = None

RootCallsFail ==
    /\ (last'.op = "detach" /\ last'.index = root) => last'.err = "CannotDetachRoot"
    /\ (last'.op \in {"insert_before", "insert_after"} /\ last'.index = root)
           => last'.err = "RootHasNoSiblings"
    /\ last'.err \in {"CannotDetachRoot", "RootHasNoSiblings"} => trees' = trees

\* C6: the node at index 0 never has a parent or a sibling; detach on it fails
\* with CannotDetachRoot and insert_before / insert_after on it fail with
\* RootHasNoSiblings, and a failing call leaves every arena as it was.
C6_RootParentlessAndProtected ==
    /\ [](\A s \in Slots : Live(s) => RootLinksAbsent(trees[s].vec))
    /\ [][RootCallsFail]_vars

C6_Witness ==
    /\ last.op = "detach" /\ last.index = root /\ last.err = "CannotDetachRoot"
    /\ node(trees[last.slot].vec, root).children # None

\* ------------------------------------------------------- C8
ChainOK(vec, p) ==
    LET kids == {i \in Idx(vec) : node(vec, i).parent = Some(p)}
        fwd == children(vec, p)
        bwd == children_rev(vec, p)
    IN  IF node(vec, p).children = None THEN kids = {}
        ELSE LET f == unwrap(first_child(node(vec, p)))
                 l == unwrap(last_child(node(vec, p)))
             IN  /\ node(vec, f).prev_sibling = None
                 /\ node(vec, l).next_sibling = None
                 /\ fwd.done /\ bwd.done
                 /\ fwd.out[1] = f /\ fwd.out[Len(fwd.out)] = l
                 /\ Cardinality(Range(fwd.out)) = Len(fwd.out)
                 /\ bwd.out = Reverse(fwd.out)
                 /\ Range(fwd.out) = kids

LinksMutual(vec) ==
    \A a, b \in Idx(vec) :
        node(vec, a).next_sibling = Some(b) <=> node(vec, b).prev_sibling = Some(a)

\* C8: under every node with a children pair (first, last), first has no
\* previous and last no next sibling, the next_sibling walk from first ends at
\* last without repeating a node, the prev_sibling walk from last is its
\* reverse, next and prev links mirror each other, and the chain holds exactly
\* the nodes whose parent is that node; a node without a children pair is
\* nobody's parent.
C8_SiblingChainsConsistent ==
    \A s \in Slots : Live(s) =>
        /\ LinksMutual(trees[s].vec)
        /\ \A p \in Idx(trees[s].vec) : ChainOK(trees[s].vec, p)

C8_Witness ==
    /\ last.op = "detach" /\ last.err = "ok" /\ last.parent_before # None
    /\ Len(children(trees[last.slot].vec, unwrap(last.parent_before)).out) = 2
    /\ \E i \in Idx(trees[last.slot].vec) :
          i # root /\ Len(children(trees[last.slot].vec, i).out) = 0
                   /\ is_orphan(trees[last.slot].vec, i)

\* ------------------------------------------------------- C9
AttachChanges(old, new) ==
    \A i \in Idx(old) :
        attached(old, i) # attached(new, i)
            => last'.op \in {"append", "insert_before", "insert_after", "detach"}

\* C9 as claimed: every node is attached or has no parent, the root is always
\* attached, and a node's state changes only through append/insert*/detach.
C9_AttachedOrOrphan ==
    /\ [](\A s \in Slots : Live(s) =>
            /\ attached(trees[s].vec, root)
            /\ \A i \in Idx(trees[s].vec) :
                  attached(trees[s].vec, i) \/ is_orphan(trees[s].vec, i))
    /\ [][\A s \in Slots : Live(s) => AttachChanges(trees[s].vec, trees'[s].vec)]_vars

\* C9 amended: every node is attached, or has no parent, or lies under a node
\* other than the root that has no parent; the rest as claimed.
C9_AttachedOrUnderOrphan ==
    /\ [](\A s \in Slots : Live(s) =>
            /\ attached(trees[s].vec, root)
            /\ \A i \in Idx(trees[s].vec) :
                  \/ attached(trees[s].vec, i)
                  \/ is_orphan(trees[s].vec, i)
                  \/ /\ ancestors(trees[s].vec, i).done
                     /\ top(trees[s].vec, i) # root
                     /\ is_orphan(trees[s].vec, top(trees[s].vec, i)))
    /\ [][\A s \in Slots : Live(s) => AttachChanges(trees[s].vec, trees'[s].vec)]_vars

C9_Witness ==
    /\ last.op = "detach" /\ last.err = "ok" /\ last.parent_before # None
    /\ \E i \in Idx(trees[last.slot].vec) :
          /\ node(trees[last.slot].vec, i).parent = Some(last.index)
          /\ ~attached(trees[last.slot].vec, i)

\* ------------------------------------------------------- C1
GetAnswers ==
    last'.op \in {"get", "get_mut"} =>
        LET B == trees[last'.slot]
            h == unwrap(held).id
        IN  /\ h.tree_id # B.id => last'.err = "InvalidHandle"
            /\ h.tree_id = B.id => last'.err # "InvalidHandle" /\ last'.index = h.index

CloneRejects ==
    \A b \in Slots :
        (/\ held # None /\ Live(b)
         /\ clone_of[b] # 0 /\ clone_of[b] = unwrap(held).from
         /\ eq(trees[b], trees[clone_of[b]])
         /\ unwrap(held).id.index < Len(trees[b].vec))
            => get(trees[b], unwrap(held).id) = "InvalidHandle"

\* C1: get / get_mut on arena B with handle h panic exactly when h.tree_id
\* differs from B.id and otherwise return the cursor at h.index; in particular
\* a handle taken from A is rejected by a clone of A that compares equal to A
\* and for which the index is in range.
C1_GetRejectsForeignHandles ==
    /\ [][GetAnswers]_vars
    /\ []CloneRejects

\* ------------------------------------------------------- C2
\* C2: every value tree_id_seq_next returns, in any interleaving of the
\* constructors of several threads, differs from every value it returned
\* before, so every arena gets an id no arena created so far has had.
C2_FreshIdPerConstruction ==
    [][TREE_ID_SEQ' # TREE_ID_SEQ => TREE_ID_SEQ \notin issued]_vars

\* ------------------------------------------------------- C7
OnlyGrows(old, new) ==
    /\ Len(new) >= Len(old)
    /\ \A i \in Idx(old) : node(new, i).value = node(old, i).value

LinkTargets(n) ==
    n.parent \cup n.prev_sibling \cup n.next_sibling
        \cup UNION {{ch[1], ch[2]} : ch \in n.children}

IndicesInRange(s) ==
    /\ \A i \in Idx(trees[s].vec) :
          \A j \in LinkTargets(node(trees[s].vec, i)) : j < Len(trees[s].vec)
    /\ held # None /\ unwrap(held).id.tree_id = trees[s].id
          => unwrap(held).id.index < Len(trees[s].vec)

\* C7: an arena's storage only grows, so every link index stored in a node and
\* every handle carrying the arena's id stays below the storage length, and the
\* unchecked indexing never reads out of range.
C7_HandlesAndLinksInRange ==
    /\ [][\A s \in Slots : Live(s) /\ trees'[s] # NoTree
             => OnlyGrows(trees[s].vec, trees'[s].vec)]_vars
    /\ [](\A s \in Slots : Live(s) => IndicesInRange(s))
    /\ [](last.err # "IndexOutOfRange")

\* ------------------------------------------------------- C10
LiveIds == {trees[s].id : s \in LiveSlots}
HeldIds == {h.id.tree_id : h \in held}

\* C10: with the counter wrapping modulo 2^w, no two live arenas share an id
\* and no id is handed out again while an arena or a handle still carries it.
C10_NoIdReuseUnderWrap ==
    /\ [](\A a, b \in LiveSlots : a # b => trees[a].id # trees[b].id)
    /\ [][TREE_ID_SEQ' # TREE_ID_SEQ => TREE_ID_SEQ \notin LiveIds \cup HeldIds]_vars

\* ------------------------------------------------------- around the wrap
\* What holds of the counter and the handles whatever the interleaving, as long
\* as the counter has not gone once round: every returned value is fresh; and,
\* at any time, an arena accepts the handle taken from it.
FreshBeforeWrap ==
    [][(TREE_ID_SEQ' # TREE_ID_SEQ /\ Cardinality(issued) < IdSpace)
          => TREE_ID_SEQ \notin issued]_vars

OwnHandleAccepted ==
    \A s \in Slots :
        (held # None /\ Live(s) /\ unwrap(held).from = s)
            => get(trees[s], unwrap(held).id) = "ok"
====
